---- MODULE Spec2Model ----
(***************************************************************************)
(* Model of the delta-synchronisation cache of src/api.py: the Cache dict  *)
(* (load_from_file, save_to_file, update_delta_data, update_data) and the  *)
(* Client that owns it (__init__, __exit__, get_cached_resource,           *)
(* get_resource, get).  The remote service, the transport-level response   *)
(* cache and the answer typed at the flush prompt are the environment.     *)
(***************************************************************************)
EXTENDS Integers, Sequences, FiniteSets, TLC

VARIABLES phase, runs, ops, mode, frozen, cache, file, sessionCache, current_rate, last,
          circuit_breaker, base_month, cells

\* The locals of report_category_stats
reportVars == <<circuit_breaker, base_month, cells>>

vars == <<phase, runs, ops, mode, frozen, cache, file, sessionCache, current_rate, last,
          circuit_breaker, base_month, cells>>

(***************************************************************************)
(* Bounds                                                                  *)
(***************************************************************************)
\* Process runs (Client constructions) and client calls in one behaviour.
MaxRuns == 2
MaxOps == 2

(***************************************************************************)
(* Domains                                                                 *)
(***************************************************************************)
\* Client.CacheMode
CacheMode == {"normal", "freeze", "flush"}

\* Client._accounts_url, _categories_url, _category_by_month_url
accounts_url == "budgets/{}/accounts"
categories_url == "budgets/{}/categories"
category_by_month_url == "budgets/{}/months/{}/categories/{}"

\* Client._delta_cacheable_urls (the two templates the model exercises)
delta_cacheable_urls == {accounts_url, categories_url}

\* LAST_USED_BUDGET_ID
LAST_USED_BUDGET_ID == "last-used"

\* url_template.format(*url_args): the url is determined by the template and
\* its arguments, so it is kept as that pair.
Format(url_template, url_args) == <<url_template, url_args>>

\* Months relative to datetime.today(): one before the current month, the
\* current month, and one after it.
Months == {"prev", "cur", "next"}
CategoryId == "c"

\* report_category_stats: current_month, months_to_check (the lookback
\* ending with the current month) and the index of categories_to_check
current_month == "cur"
months_to_check == <<"prev", "cur">>
categories_to_check == <<"c", "d">>
CategoryIds == {categories_to_check[j] : j \in 1..Len(categories_to_check)}

DeltaUrls == {Format(t, <<LAST_USED_BUDGET_ID>>) : t \in delta_cacheable_urls}
CategoryUrl(month, category_id) ==
    Format(category_by_month_url, <<LAST_USED_BUDGET_ID, month, category_id>>)
MonthUrl(month) == CategoryUrl(month, CategoryId)
Urls == DeltaUrls \cup {CategoryUrl(m, c) : m \in Months, c \in CategoryIds}
NoUrl == Format("", <<>>)

Ids == {"x", "y"}
Vals == {1, 2}
Knowledge == {10, 11}
Answers == {"Y", "y", "N"}
Statuses == {200, 404, 429}

\* A record as a resource extractor builds it (Account, Category, ...), its
\* content v drawn from V.
Records(V) == [id : Ids, v : V]

\* DeltaCacheData.get_id
get_id(r) == r.id

\* The record lists a response can carry: none, one or two records, the two
\* possibly of the same id.
Deltas(V) ==
    {<<>>} \cup {<<r>> : r \in Records(V)} \cup {<<r, s>> : r \in Records(V), s \in Records(V)}

\* Response bodies (resp.json()["data"]) of a delta endpoint and of the
\* category-by-month endpoint; a body that is not wellformed lacks the field
\* the extractor or the caller reads.
MalformedDeltaBody == [wellformed |-> FALSE, server_knowledge |-> 10, records |-> <<>>]
DeltaBodies(V) ==
    {[wellformed |-> TRUE, server_knowledge |-> k, records |-> d] : k \in Knowledge, d \in Deltas(V)}
\* A Category object: the fields Category.copy reads or writes. No target
\* month is "None", no cadence is "".
Categories(Activity, Balance, GoalType) ==
    [id : {CategoryId}, activity : Activity, balance : Balance, budgeted : {4},
     goal_type : GoalType, goal_target_month : {"2030-01-01"}, goal_cadence : {"Monthly"},
     goal_cadence_frequency : {"1"}, goal_months_to_budget : {2}]
NoCategory == [id |-> "none"]

MalformedCategoryBody ==
    [wellformed |-> FALSE,
     category |-> CHOOSE c \in Categories({1}, {3}, {"Needed For Spending"}) : TRUE]
CategoryBodies ==
    {[wellformed |-> TRUE, category |-> c] : c \in Categories(Vals, {3}, {"Needed For Spending"})}
\* The bodies the report gets: the fields of the category vary
ReportCategoryBodies ==
    {[wellformed |-> TRUE, category |-> c] :
        c \in Categories({1}, {0, 3}, {"None", "Needed For Spending"})}

\* The text of an X-Rate-Limit header, character by character: every text of
\* up to MaxRateLimitLen characters, and some around the warning threshold.
RateLimitChars == {"0", "1", "2", "/"}
MaxRateLimitLen == 3
RateLimitTexts ==
    UNION {[1..n -> RateLimitChars] : n \in 0..MaxRateLimitLen}
    \cup {<<"1", "9", "/", "2", "0">>, <<"1", "9", "0", "/", "2", "0", "0">>,
          <<"1", "9", "1", "/", "2", "0", "0">>, <<"2", "0", "0", "/", "2", "0", "0">>}

\* resp.headers: with or without the X-Rate-Limit header
NoHeaders == [n \in {} |-> <<>>]
HeadersOf(rate_limit) == [n \in {"X-Rate-Limit"} |-> rate_limit]
UsualHeaders == HeadersOf(<<"1", "/", "2">>)
RateLimitHeaders == {NoHeaders} \cup {HeadersOf(t) : t \in RateLimitTexts}

\* What the session answers to a GET: a status, headers and, when 2xx, a body.
OkWith(bodies, headers) ==
    {[status |-> 200, data |-> b, headers |-> h] : b \in bodies, h \in headers}
Ok(bodies) == OkWith(bodies, {UsualHeaders})
Failed(body) ==
    {[status |-> st, data |-> body, headers |-> UsualHeaders] : st \in Statuses \ {200}}

\* The answers to the requests of a whole run: record contents are not told
\* apart. The answers to the syncs of one key: they are.
DeltaResponses == Ok(DeltaBodies({1}) \cup {MalformedDeltaBody}) \cup Failed(MalformedDeltaBody)
CategoryResponses == Ok(CategoryBodies \cup {MalformedCategoryBody}) \cup Failed(MalformedCategoryBody)
RichDeltaResponses == Ok(DeltaBodies(Vals))
\* The answers to the requests of a report: 500 stands for the statuses the
\* report does not handle.
ReportResponses ==
    Ok(ReportCategoryBodies \cup {MalformedCategoryBody})
    \cup {[status |-> st, data |-> MalformedCategoryBody, headers |-> UsualHeaders] :
            st \in (Statuses \ {200}) \cup {500}}
\* The answers to one request, over every X-Rate-Limit header
RateLimitResponses ==
    OkWith({b \in CategoryBodies : b.category.activity = 1}, RateLimitHeaders)
    \cup {[status |-> 429, data |-> MalformedCategoryBody, headers |-> h] : h \in RateLimitHeaders}

\* The persisted cache file: absent, holding an encoded store, or opened for
\* writing and not (wholly) written: empty or a prefix of a document.
NoFile == [exists |-> FALSE]
FileOf(content) == [exists |-> TRUE, content |-> content]
TruncatedFile == [exists |-> TRUE, truncated |-> TRUE]

\* json.load / jsonpickle.decode succeed on the file's content
Decodable(f) == f.exists /\ "content" \in DOMAIN f

\* CacheItem / DeltaCacheItem / no item under the key
NoEntry == [kind |-> "none"]
CacheItem(data) == [kind |-> "plain", data |-> data]
DeltaCacheItem(server_knowledge, data) ==
    [kind |-> "delta", server_knowledge |-> server_knowledge, data |-> data]

\* Cache.__init__: super().__init__() leaves the dict empty
EmptyCache == [u \in Urls |-> NoEntry]

\* `key in self`
InCache(c, url) == c[url].kind # "none"

\* What a call hands back: a list, a single object, or a raised exception.
ReturnList(l) == [list |-> l]
ReturnObject(o) == [object |-> o]
Raise(e) == [raised |-> e]
Returned(r) == "raised" \notin DOMAIN r

(***************************************************************************)
(* Cache                                                                   *)
(***************************************************************************)
\* jsonpickle.encode(self) / jsonpickle.decode: the mapping of urls to items
\* is written as, and read back from, one document.
EncodeDeltaOnly(c) == [u \in {v \in Urls : c[v].kind = "delta"} |-> c[u]]
Encode(c) == [u \in {v \in Urls : InCache(c, v)} |-> c[u]]
Decode(doc) == [u \in Urls |-> IF u \in DOMAIN doc THEN doc[u] ELSE NoEntry]

\* load_from_file opening the file without the os.path.exists test
load_from_file_requires_file(c, f) ==
    IF ~Decodable(f) THEN Raise("FileNotFoundError") ELSE ReturnObject(Decode(f.content))

\* Cache.load_from_file, the store it leaves: nothing happens when the file
\* is absent, json.load raises on a content that is no document, else clear()
\* and update() with the decoded mapping.
load_from_file(c, f) ==
    IF ~f.exists THEN ReturnObject(c)
    ELSE IF ~Decodable(f) THEN Raise("JSONDecodeError")
    ELSE ReturnObject(Decode(f.content))

\* Cache.save_to_file, first half: open(file_path, mode="w") empties the file
open_for_write(f) == TruncatedFile

\* Cache.save_to_file, second half: the encoded store is dumped into the
\* opened file.
save_to_file(c) == FileOf(Encode(c))

\* Cache.__init__: the dict starts empty; freeze sets frozen, flush loads the
\* file, normal does neither.
CacheInitFrozen(m) == m = "freeze"
CacheInit(f, m) ==
    IF m = "flush" THEN load_from_file(EmptyCache, f) ELSE ReturnObject(EmptyCache)

\* The inner loop of update_delta_data: is some datum of data_to_cache of the
\* id of cached_datum?
Found(cached_datum, data_to_cache) ==
    \E j \in 1..Len(data_to_cache) : get_id(cached_datum) = get_id(data_to_cache[j])

\* The outer loop of update_delta_data from position i of cached_data on:
\* data_to_cache is the list being appended to (it is `data` itself).
RECURSIVE MergeLoop(_, _, _)
MergeLoop(cached_data, i, data_to_cache) ==
    IF i > Len(cached_data) THEN data_to_cache
    ELSE MergeLoop(cached_data, i + 1,
                   IF Found(cached_data[i], data_to_cache)
                   THEN data_to_cache
                   ELSE Append(data_to_cache, cached_data[i]))

\* cached_data of update_delta_data: the item's data when the key is present
CachedData(c, key) == IF InCache(c, key) THEN c[key].data ELSE <<>>

\* update_delta_data keeping the cached datum where the response holds one of
\* the same id
DataToCachePreviousWins(c, key, data) ==
    LET cached_data == CachedData(c, key)
    IN  cached_data \o SelectSeq(data, LAMBDA d : ~Found(d, cached_data))

\* update_delta_data without the loop over cached_data
DataToCacheReplace(c, key, data) == data

\* update_delta_data dropping the later records of an id the response repeats
DataToCacheDeduplicated(c, key, data) ==
    MergeLoop(CachedData(c, key), 1, MergeLoop(data, 1, <<>>))

\* update_delta_data putting the carried-over cached records in front
DataToCacheCarriedFirst(c, key, data) ==
    LET merged == MergeLoop(CachedData(c, key), 1, data)
    IN  SubSeq(merged, Len(data) + 1, Len(merged)) \o data

\* update_delta_data appending every cached datum, found or not
DataToCacheAppendAll(c, key, data) == data \o CachedData(c, key)

\* The list update_delta_data stores and returns
DataToCache(c, key, data) == MergeLoop(CachedData(c, key), 1, data)

\* update_delta_data never lowering the stored server_knowledge
update_delta_data_max(c, key, data, server_knowledge) ==
    [c EXCEPT ![key] = DeltaCacheItem(
        IF InCache(c, key) /\ c[key].server_knowledge > server_knowledge
        THEN c[key].server_knowledge ELSE server_knowledge,
        MergeLoop(CachedData(c, key), 1, data))]

\* Cache.update_delta_data: the store after self[key] = DeltaCacheItem(...)
update_delta_data(c, key, data, server_knowledge) ==
    [c EXCEPT ![key] = DeltaCacheItem(server_knowledge, DataToCache(c, key, data))]

\* update_data building the dict anew around the one item
update_data_alone(c, key, data) == [EmptyCache EXCEPT ![key] = CacheItem(data)]

\* Cache.update_data
update_data(c, key, data) == [c EXCEPT ![key] = CacheItem(data)]

(***************************************************************************)
(* Client                                                                  *)
(***************************************************************************)
\* rate_limit.split("/")
RECURSIVE Split(_)
Split(text) ==
    IF \A j \in 1..Len(text) : text[j] # "/" THEN <<text>>
    ELSE LET k == CHOOSE j \in 1..Len(text) :
                      text[j] = "/" /\ \A i \in 1..(j - 1) : text[i] # "/"
         IN  <<SubSeq(text, 1, k - 1)>> \o Split(SubSeq(text, k + 1, Len(text)))

\* int(text): a ValueError unless the text is a run of digits
Digits == {"0", "1", "2", "9"}
IsInt(text) == text # <<>> /\ \A j \in 1..Len(text) : text[j] \in Digits
DigitValue(ch) == CASE ch = "0" -> 0 [] ch = "1" -> 1 [] ch = "2" -> 2 [] ch = "9" -> 9
RECURSIVE ToInt(_)
ToInt(text) ==
    IF text = <<>> THEN 0
    ELSE 10 * ToInt(SubSeq(text, 1, Len(text) - 1)) + DigitValue(text[Len(text)])

\* Client._rate_warn_threshold, in hundredths
rate_warn_threshold == 95

\* self.current_rate before the first record_rate_limit
NoRate == -1

\* Client.record_rate_limit: what it raises, what it sets self.current_rate
\* to (NoRate when it does not get there) and whether it logs the warning.
record_rate_limit(rate_limit) ==
    LET parts == Split(rate_limit)
    IN  IF Len(parts) # 2 \/ ~IsInt(parts[1]) \/ ~IsInt(parts[2])
        THEN [ret |-> Raise("ValueError"), current_rate |-> NoRate, warned |-> FALSE]
        ELSE LET current == ToInt(parts[1])
                 max == ToInt(parts[2])
             IN  IF max = 0
                 THEN [ret |-> Raise("ZeroDivisionError"), current_rate |-> current, warned |-> FALSE]
                 ELSE [ret |-> ReturnObject("None"), current_rate |-> current,
                       warned |-> 100 * current > rate_warn_threshold * max]

\* Client.get up to the end of record_rate_limit: raise_for_status() raises on
\* a 4xx or 5xx answer, resp.headers['X-Rate-Limit'] on a missing header.
RateLimitRecorded(resp) ==
    IF resp.status >= 400
    THEN [ret |-> Raise("HTTPError"), current_rate |-> NoRate, warned |-> FALSE]
    ELSE IF "X-Rate-Limit" \notin DOMAIN resp.headers
    THEN [ret |-> Raise("KeyError"), current_rate |-> NoRate, warned |-> FALSE]
    ELSE record_rate_limit(resp.headers["X-Rate-Limit"])

\* Client.get after record_rate_limit: return resp.json()["data"]
get_data(recorded, resp) ==
    IF Returned(recorded.ret) THEN ReturnObject(resp.data) ELSE recorded.ret

\* Client.get: the body of the answer unless something raised before
get(resp) == get_data(RateLimitRecorded(resp), resp)

\* self.current_rate after a call that did or did not send a request
RateAfter(rate, recorded) ==
    IF recorded.current_rate # NoRate THEN recorded.current_rate ELSE rate
CurrentRateAfter(rate, requested, resp) ==
    IF requested THEN RateAfter(rate, RateLimitRecorded(resp)) ELSE rate

\* Extractors that read the field with a default instead of raising
resource_extractor_lenient(url_template, data) ==
    IF url_template = category_by_month_url THEN ReturnObject(data.category)
    ELSE ReturnList(data.records)

\* The resource extractors (the lambdas of get_accounts, get_categories,
\* get_category_by_month): a KeyError when the body lacks the field.
resource_extractor(url_template, data) ==
    IF ~data.wellformed THEN Raise("KeyError")
    ELSE IF url_template = category_by_month_url THEN ReturnObject(data.category)
    ELSE ReturnList(data.records)

\* get_cached_resource never setting last_knowledge_of_server
RequestParamsOmitted(c, url) == {}

\* params of get_cached_resource: last_knowledge_of_server from the item of
\* a delta entry, nothing otherwise.
RequestParams(c, url) ==
    IF InCache(c, url) /\ c[url].kind = "delta"
    THEN {<<"last_knowledge_of_server", c[url].server_knowledge>>}
    ELSE {}

\* get_cached_resource without the test of self.cache.frozen
ServedFromCacheNotFrozen(c, frz, url) == InCache(c, url) /\ c[url].kind = "plain"

\* get_cached_resource returning early for a frozen DeltaCacheItem only
ServedFromCacheDeltaOnly(c, frz, url) == InCache(c, url) /\ c[url].kind = "delta" /\ frz

\* The early returns of get_cached_resource: a CacheItem always, a
\* DeltaCacheItem when the cache is frozen.
ServedFromCache(c, frz, url) ==
    InCache(c, url) /\ (c[url].kind = "plain" \/ (c[url].kind = "delta" /\ frz))

\* get_cached_resource storing every resource with update_data
StoreResourcePlain(c, url_template, url, resource, data) ==
    update_data(c, url, IF url_template \in delta_cacheable_urls THEN resource.list ELSE resource.object)

\* The store after the fetch and the extraction succeeded (lines 601-604)
StoreResource(c, url_template, url, resource, data) ==
    IF url_template \in delta_cacheable_urls
    THEN update_delta_data(c, url, resource.list, data.server_knowledge)
    ELSE update_data(c, url, resource.object)

\* Client.get_cached_resource as a whole: the store it leaves, whether a
\* request went out and with which params, and what the caller gets.
get_cached_resource(c, frz, url_template, url_args, resp) ==
    LET url == Format(url_template, url_args)
        params == RequestParams(c, url)
        data == get(resp)
        resource == resource_extractor(url_template, data.object)
    IN  IF InCache(c, url) /\ c[url].kind \notin {"plain", "delta"}
        THEN [cache |-> c, requested |-> FALSE, params |-> {}, ret |-> Raise("TypeError")]
        ELSE IF ServedFromCache(c, frz, url)
        THEN [cache |-> c, requested |-> FALSE, params |-> {},
              ret |-> IF c[url].kind = "plain" THEN ReturnObject(c[url].data)
                      ELSE ReturnList(c[url].data)]
        ELSE IF ~Returned(data)
        THEN [cache |-> c, requested |-> TRUE, params |-> params, ret |-> data]
        ELSE IF ~Returned(resource)
        THEN [cache |-> c, requested |-> TRUE, params |-> params, ret |-> resource]
        ELSE LET stored == StoreResource(c, url_template, url, resource, data.object)
             IN  [cache |-> stored, requested |-> TRUE, params |-> params,
                  ret |-> IF url_template \in delta_cacheable_urls
                          THEN ReturnList(stored[url].data)
                          ELSE resource]

\* get_category_by_month handing every month to get_cached_resource
get_resource_stored(c, url_template, url_args, resp) ==
    get_cached_resource(c, FALSE, url_template, url_args, resp)

\* Client.get_resource: always a request without params, the store untouched
get_resource(c, url_template, url_args, resp) ==
    LET data == get(resp)
    IN  [cache |-> c, requested |-> TRUE, params |-> {},
         ret |-> IF ~Returned(data) THEN data
                 ELSE resource_extractor(url_template, data.object)]

\* get_category_by_month: previous months go through the cache
IsBeforeCurrentMonth(month) == month = "prev"

\* Client.get_category_by_month
get_category_by_month(c, frz, month, category_id, resp) ==
    LET url_args == <<LAST_USED_BUDGET_ID, month, category_id>>
    IN  IF IsBeforeCurrentMonth(month)
        THEN get_cached_resource(c, frz, category_by_month_url, url_args, resp)
        ELSE get_resource(c, category_by_month_url, url_args, resp)

\* Category.copy: the category it returns and the fields it leaves in self
copy(self) ==
    [category |-> [self EXCEPT !.activity = 0],
     self |-> [self EXCEPT !.balance = 0, !.budgeted = 0, !.goal_type = "None",
                           !.goal_target_month = "None", !.goal_cadence = "",
                           !.goal_cadence_frequency = "", !.goal_months_to_budget = 0]]

\* One self.client.get_category_by_month call of the report: its url, the
\* answer offered to it and what came of it.
ClientCall(month, category_id, resp, res) ==
    [url |-> CategoryUrl(month, category_id), resp |-> resp, requested |-> res.requested,
     ret |-> res.ret]

\* The 404 handler of the wrapper: current is what the call for the current
\* month came to; its copy is returned, its exception let through.
report_not_found(calls1, current, breaker, category_id, resp2) ==
    [cache |-> current.cache, circuit_breaker |-> breaker,
     ret |-> IF Returned(current.ret) THEN ReturnObject(copy(current.ret.object).category)
             ELSE current.ret,
     calls |-> Append(calls1, ClientCall(current_month, category_id, resp2, current))]

\* The try statement of the wrapper: first is what its call came to. Only an
\* HTTPError is handled, by its status.
report_try(first, frz, breaker, base, month, category_id, resp, resp2) ==
    LET calls1 == <<ClientCall(month, category_id, resp, first)>>
    IN  IF Returned(first.ret) \/ first.ret # Raise("HTTPError")
        THEN [cache |-> first.cache, circuit_breaker |-> breaker, ret |-> first.ret,
              calls |-> calls1]
        ELSE IF resp.status = 404
        THEN report_not_found(calls1,
                              get_category_by_month(first.cache, frz, current_month,
                                                    category_id, resp2),
                              breaker, category_id, resp2)
        ELSE IF resp.status = 429
        THEN [cache |-> first.cache, circuit_breaker |-> TRUE, ret |-> ReturnObject(base),
              calls |-> calls1]
        ELSE [cache |-> first.cache, circuit_breaker |-> breaker, ret |-> first.ret,
              calls |-> calls1]

\* The get_category_by_month wrapper of report_category_stats for one cell:
\* resp answers its call, resp2 the call of the 404 handler. It gives the
\* store, the breaker, what the cell receives and the client calls made.
report_get_category_by_month(c, frz, breaker, base, month, category_id, resp, resp2) ==
    IF breaker
    THEN [cache |-> c, circuit_breaker |-> breaker, ret |-> ReturnObject(base), calls |-> <<>>]
    ELSE report_try(get_category_by_month(c, frz, month, category_id, resp),
                    frz, breaker, base, month, category_id, resp, resp2)

\* The session's response cache and self.current_rate after the client calls
\* of one step of the report
RECURSIVE SessionAfterCalls(_, _)
SessionAfterCalls(session, calls) ==
    IF calls = <<>> THEN session
    ELSE SessionAfterCalls(IF Head(calls).requested THEN session \cup {Head(calls).url} ELSE session,
                           Tail(calls))
RECURSIVE CurrentRateAfterCalls(_, _)
CurrentRateAfterCalls(rate, calls) ==
    IF calls = <<>> THEN rate
    ELSE CurrentRateAfterCalls(CurrentRateAfter(rate, Head(calls).requested, Head(calls).resp),
                               Tail(calls))

\* input_str.upper()
Upper(str) == IF str = "y" THEN "Y" ELSE str

\* Client.__init__: a flush not answered with Y ends the process
FlushDeclined(m, answer) == m = "flush" /\ Upper(answer) # "Y"

\* __init__ clearing the session's response cache before it asks
SessionClearedBeforePrompt(m, answer, session) == IF m = "flush" THEN {} ELSE session

\* Client.__init__: self.session.cache.clear() once the flush is confirmed
SessionAfterInit(m, answer, session) ==
    IF m = "flush" /\ ~FlushDeclined(m, answer) THEN {} ELSE session

\* __exit__ saving only when the with-block ended without an exception
ExitSavesOnCleanExit(c, exc) == ~exc

\* Client.__exit__(*args): the exception of the body is ignored, and
\* self.cache, set by __init__, is never None.
ExitSaves(c, exc) == DOMAIN c = Urls

(***************************************************************************)
(* State machine                                                           *)
(***************************************************************************)
\* The record of the latest step: the call, the store before it, the
\* session's answer, whether a request went out and with which params,
\* what the caller got, for __exit__ the file it opened for writing, and for
\* __init__ what was typed at the flush prompt.
NoResponse == [status |-> 0]
Call(op, url, before, resp, res) ==
    [op |-> op, url |-> url, before |-> before, resp |-> IF res.requested THEN resp ELSE NoResponse,
     requested |-> res.requested, params |-> res.params, ret |-> res.ret, saved_over |-> NoFile,
     answer |-> "", warned |-> res.requested /\ RateLimitRecorded(resp).warned]
\* The record of a step of the report: the cell, the breaker before it, the
\* client calls made, what the cell received, and for a copy the category
\* before it, after it and the one returned.
NoCopy == [done |-> FALSE]
Copied(self) == [done |-> TRUE, self |-> self, self_after |-> copy(self).self,
                 category |-> copy(self).category]
ReportCall(op, cell, breaker, before, calls, ret, copied) ==
    [op |-> op, url |-> NoUrl, before |-> before, resp |-> NoResponse,
     requested |-> \E j \in 1..Len(calls) : calls[j].requested, params |-> {}, ret |-> ret,
     saved_over |-> NoFile, answer |-> "", warned |-> FALSE,
     cell |-> cell, breaker |-> breaker, calls |-> calls, copied |-> copied]

NoCall(op) ==
    [op |-> op, url |-> NoUrl, before |-> EmptyCache, resp |-> NoResponse,
     requested |-> FALSE, params |-> {}, ret |-> ReturnList(<<>>), saved_over |-> NoFile,
     answer |-> "", warned |-> FALSE]

Init ==
    /\ phase = "off"
    /\ runs = 0
    /\ ops = 0
    /\ mode = "normal"
    /\ frozen = FALSE
    /\ cache = EmptyCache
    /\ file = NoFile
    /\ sessionCache = {}
    /\ current_rate = NoRate
    /\ last = NoCall("none")
    /\ circuit_breaker = FALSE
    /\ base_month = NoCategory
    /\ cells = <<>>

\* Client.__init__ (with Cache.__init__) and __enter__
StartClient(m, answer) ==
    /\ phase = "off"
    /\ runs < MaxRuns
    /\ runs' = runs + 1
    /\ mode' = m
    /\ sessionCache' = SessionAfterInit(m, answer, sessionCache)
    /\ IF FlushDeclined(m, answer)
       THEN /\ phase' = "off"
            /\ last' = [NoCall("exit0") EXCEPT !.answer = answer]
            /\ UNCHANGED <<frozen, cache, current_rate>>
       ELSE LET built == CacheInit(file, m)
                typed == IF m = "flush" THEN answer ELSE ""
            IN  IF Returned(built)
                THEN /\ phase' = "running"
                     /\ last' = [NoCall("start") EXCEPT !.answer = typed]
                     /\ frozen' = CacheInitFrozen(m)
                     /\ cache' = built.object
                     /\ current_rate' = NoRate
                ELSE /\ phase' = "off"
                     /\ last' = [NoCall("start_failed") EXCEPT !.ret = built, !.answer = typed]
                     /\ UNCHANGED <<frozen, cache, current_rate>>
    /\ UNCHANGED <<ops, file>>
    /\ UNCHANGED reportVars

\* get_accounts / get_categories
GetDeltaResource(url_template, resp) ==
    /\ phase = "running"
    /\ ops < MaxOps
    /\ \E res \in {get_cached_resource(cache, frozen, url_template, <<LAST_USED_BUDGET_ID>>, resp)} :
       LET url == Format(url_template, <<LAST_USED_BUDGET_ID>>)
       IN  /\ cache' = res.cache
           /\ last' = Call("get_cached_resource", url, cache, resp, res)
           /\ sessionCache' = IF res.requested THEN sessionCache \cup {url} ELSE sessionCache
           /\ current_rate' = CurrentRateAfter(current_rate, res.requested, resp)
    /\ ops' = ops + 1
    /\ UNCHANGED <<phase, runs, mode, frozen, file>>
    /\ UNCHANGED reportVars

\* get_category_by_month
GetCategoryByMonth(month, resp) ==
    /\ phase = "running"
    /\ ops < MaxOps
    /\ \E res \in {get_category_by_month(cache, frozen, month, CategoryId, resp)} :
       LET url == MonthUrl(month)
           cached == IsBeforeCurrentMonth(month)
       IN  /\ cache' = res.cache
           /\ last' = Call(IF cached THEN "get_cached_resource" ELSE "get_resource", url, cache, resp, res)
           /\ sessionCache' = IF res.requested THEN sessionCache \cup {url} ELSE sessionCache
           /\ current_rate' = CurrentRateAfter(current_rate, res.requested, resp)
    /\ ops' = ops + 1
    /\ UNCHANGED <<phase, runs, mode, frozen, file>>
    /\ UNCHANGED reportVars

\* Client.__exit__ up to the opening of the file in save_to_file: the
\* with-block ends, normally or by an exception (exc).
ExitClient(exc) ==
    /\ phase = "running"
    /\ IF ExitSaves(cache, exc)
       THEN /\ phase' = "saving"
            /\ file' = open_for_write(file)
       ELSE /\ phase' = "off"
            /\ UNCHANGED file
    /\ last' = [NoCall(IF exc THEN "exit_raised" ELSE "exit") EXCEPT !.saved_over = file]
    /\ UNCHANGED <<runs, ops, mode, frozen, cache, sessionCache, current_rate>>
    /\ UNCHANGED reportVars

\* The rest of save_to_file: json.dump into the opened file
DumpFile ==
    /\ phase = "saving"
    /\ phase' = "off"
    /\ file' = save_to_file(cache)
    /\ UNCHANGED <<runs, ops, mode, frozen, cache, sessionCache, current_rate, last>>
    /\ UNCHANGED reportVars

\* The process is stopped between the opening of the file and the end of
\* the dump.
Interrupt ==
    /\ phase = "saving"
    /\ phase' = "off"
    /\ last' = NoCall("interrupted")
    /\ UNCHANGED <<runs, ops, mode, frozen, cache, file, sessionCache, current_rate>>
    /\ UNCHANGED reportVars

Next ==
    \/ \E m \in CacheMode, answer \in Answers : StartClient(m, answer)
    \/ \E t \in delta_cacheable_urls : \E resp \in DeltaResponses : GetDeltaResource(t, resp)
    \/ \E month \in Months : \E resp \in CategoryResponses : GetCategoryByMonth(month, resp)
    \/ \E exc \in BOOLEAN : ExitClient(exc)
    \/ DumpFile
    \/ Interrupt

Spec == Init /\ [][Next]_vars

\* The syncs of one key in a Normal-mode run, over every record content
InitSync ==
    /\ phase = "running"
    /\ runs = 1
    /\ ops = 0
    /\ mode = "normal"
    /\ frozen = CacheInitFrozen("normal")
    /\ cache = CacheInit(NoFile, "normal").object
    /\ file = NoFile
    /\ sessionCache = {}
    /\ current_rate = NoRate
    /\ last = NoCall("start")
    /\ circuit_breaker = FALSE
    /\ base_month = NoCategory
    /\ cells = <<>>

NextSync == \E resp \in RichDeltaResponses : GetDeltaResource(accounts_url, resp)

SpecSync == InitSync /\ [][NextSync]_vars

\* report_category_stats, lines 236-238: base_month is the copy of the first
\* category in the current month; an exception ends the report.
ReportStart(resp) ==
    /\ phase = "running"
    /\ \E category_id \in {categories_to_check[1]} :
       \E res \in {get_category_by_month(cache, frozen, current_month, category_id, resp)} :
       \E calls \in {<<ClientCall(current_month, category_id, resp, res)>>} :
          /\ cache' = res.cache
          /\ sessionCache' = SessionAfterCalls(sessionCache, calls)
          /\ current_rate' = CurrentRateAfterCalls(current_rate, calls)
          /\ IF Returned(res.ret)
             THEN /\ phase' = "reporting"
                  /\ base_month' = copy(res.ret.object).category
                  /\ last' = ReportCall("report_start", <<current_month, category_id>>, FALSE,
                                        cache, calls, ReturnObject(copy(res.ret.object).category),
                                        Copied(res.ret.object))
             ELSE /\ phase' = "reported"
                  /\ base_month' = base_month
                  /\ last' = ReportCall("report_start", <<current_month, category_id>>, FALSE,
                                        cache, calls, res.ret, NoCopy)
    /\ circuit_breaker' = FALSE
    /\ cells' = <<>>
    /\ UNCHANGED <<runs, ops, mode, frozen, file>>

\* The cells of categories_by_month_data in the order apply(axis=1) fills
\* them: row by row, and in a row month by month.
ReportCells ==
    [k \in 1..(Len(categories_to_check) * Len(months_to_check)) |->
        <<months_to_check[((k - 1) % Len(months_to_check)) + 1],
          categories_to_check[((k - 1) \div Len(months_to_check)) + 1]>>]

\* report_category_stats, lines 261-269: the wrapper is called for the next
\* cell; an exception it lets through ends the report.
ReportCell(resp, resp2) ==
    /\ phase = "reporting"
    /\ Len(cells) < Len(ReportCells)
    /\ \E cell \in {ReportCells[Len(cells) + 1]} :
       \E r \in {report_get_category_by_month(cache, frozen, circuit_breaker, base_month,
                                              cell[1], cell[2], resp, resp2)} :
          /\ cache' = r.cache
          /\ circuit_breaker' = r.circuit_breaker
          /\ sessionCache' = SessionAfterCalls(sessionCache, r.calls)
          /\ current_rate' = CurrentRateAfterCalls(current_rate, r.calls)
          /\ last' = ReportCall("report_cell", cell, circuit_breaker, cache, r.calls, r.ret,
                                IF Len(r.calls) = 2 /\ Returned(r.ret)
                                THEN Copied(r.calls[2].ret.object) ELSE NoCopy)
          /\ IF Returned(r.ret)
             THEN /\ cells' = Append(cells, r.ret.object)
                  /\ phase' = IF Len(cells) + 1 = Len(ReportCells) THEN "reported" ELSE "reporting"
             ELSE /\ cells' = cells
                  /\ phase' = "reported"
    /\ UNCHANGED <<runs, ops, mode, frozen, file, base_month>>

\* A report_category_stats call in a Normal-mode run, from the fetch of
\* base_month on; the months and categories it starts from are fetched.
NextReport ==
    \/ \E resp \in ReportResponses : ReportStart(resp)
    \/ \E resp, resp2 \in ReportResponses : ReportCell(resp, resp2)

SpecReport == InitSync /\ [][NextReport]_vars

\* The requests of a Normal-mode run, over every X-Rate-Limit header
NextRateLimit == \E resp \in RateLimitResponses : GetCategoryByMonth("cur", resp)

SpecRateLimit == InitSync /\ [][NextRateLimit]_vars

(***************************************************************************)
(* Properties                                                              *)
(***************************************************************************)
IdsOf(l) == {get_id(l[j]) : j \in 1..Len(l)}
AtId(l, i) == SelectSeq(l, LAMBDA r : get_id(r) = i)
NoDuplicateIds(l) == \A j, k \in 1..Len(l) : get_id(l[j]) = get_id(l[k]) => j = k

\* The previous records that are carried over: those of an id not seen yet
RECURSIVE CarriedOver(_, _)
CarriedOver(previous, seen) ==
    IF previous = <<>> THEN <<>>
    ELSE IF get_id(Head(previous)) \in seen THEN CarriedOver(Tail(previous), seen)
    ELSE <<Head(previous)>> \o CarriedOver(Tail(previous), seen \cup {get_id(Head(previous))})

\* merge(previous, delta): the delta, then the carried-over previous records
Merged(previous, delta) == delta \o CarriedOver(previous, IdsOf(delta))

\* The latest step was a get_cached_resource call for a delta-cacheable key
SyncCall == last.op = "get_cached_resource" /\ last.url \in DeltaUrls
\* ... the session answered it with a 2xx status and a decodable body
Answered == last.requested /\ last.resp.status = 200 /\ last.resp.data.wellformed
\* The item of the key before the call, its records, and the item after it
PrevItem == last.before[last.url]
PrevData == IF PrevItem.kind = "delta" THEN PrevItem.data ELSE <<>>
Item == cache[last.url]

\* C1: in Normal mode a call for a delta-cacheable key sends a request whose
\* params hold exactly the watermark of the key's item, and no
\* last_knowledge_of_server when the key has no item; when the call succeeds
\* the item becomes (watermark of the response, merge of the item's records
\* and the response's records) and the merged list is returned.
C1_NormalSync ==
    (SyncCall /\ mode = "normal") =>
        /\ last.requested
        /\ last.params = IF PrevItem.kind = "delta"
                         THEN {<<"last_knowledge_of_server", PrevItem.server_knowledge>>}
                         ELSE {}
        /\ Answered =>
              /\ Item = DeltaCacheItem(last.resp.data.server_knowledge,
                                       Merged(PrevData, last.resp.data.records))
              /\ last.ret = ReturnList(Item.data)

C1_Witness ==
    /\ SyncCall /\ mode = "normal" /\ Answered
    /\ PrevItem.kind = "delta"
    /\ PrevItem.data # <<>>
    /\ last.resp.data.records # <<>>
    /\ PrevItem.server_knowledge # last.resp.data.server_knowledge
    /\ IdsOf(PrevItem.data) \ IdsOf(last.resp.data.records) # {}

\* C2: when the previous records and the delta share an id, the merged list
\* holds at that id the records of the delta, and so no previous record of
\* that id.
C2_DeltaPrecedence ==
    (SyncCall /\ Answered) =>
        \A i \in IdsOf(PrevData) \cap IdsOf(last.resp.data.records) :
            AtId(Item.data, i) = AtId(last.resp.data.records, i)

C2_Witness ==
    /\ SyncCall /\ Answered
    /\ \E j \in 1..Len(PrevData), k \in 1..Len(last.resp.data.records) :
          /\ get_id(PrevData[j]) = get_id(last.resp.data.records[k])
          /\ PrevData[j] # last.resp.data.records[k]
    /\ IdsOf(PrevData) \ IdsOf(last.resp.data.records) # {}

\* C3: an id of the previous records that the delta does not hold is in the
\* merged list, with a record the previous list held for it.
C3_Retention ==
    (SyncCall /\ Answered) =>
        \A i \in IdsOf(PrevData) \ IdsOf(last.resp.data.records) :
            /\ AtId(Item.data, i) # <<>>
            /\ \A j \in 1..Len(Item.data) :
                  get_id(Item.data[j]) = i => \E k \in 1..Len(PrevData) : PrevData[k] = Item.data[j]

C3_Witness ==
    /\ SyncCall /\ Answered
    /\ last.resp.data.records # <<>>
    /\ \E i \in IdsOf(PrevData) \ IdsOf(last.resp.data.records) :
          \E j \in 1..Len(Item.data) : get_id(Item.data[j]) = i /\ Item.data[j].v = 2

\* C4: with the cache frozen, a call for a key that has an item sends no
\* request, returns the item's data and leaves the item as it was.
C4_FrozenServesStored ==
    (last.op = "get_cached_resource" /\ frozen /\ PrevItem.kind # "none") =>
        /\ ~last.requested
        /\ last.ret = (IF PrevItem.kind = "delta" THEN ReturnList(PrevItem.data)
                       ELSE ReturnObject(PrevItem.data))
        /\ Item = PrevItem

C4_Witness ==
    /\ SyncCall /\ frozen
    /\ PrevItem.kind = "delta"
    /\ PrevItem.data # <<>>
    /\ last.ret = ReturnList(PrevItem.data)

\* C5: the first call of a run started in flush mode, for a delta-cacheable
\* key, finds the store empty and sends its request without
\* last_knowledge_of_server, whatever the cache file held.
C5_FlushFetchesWithoutWatermark ==
    [][(last.op = "start" /\ mode = "flush" /\ last'.op = "get_cached_resource"
        /\ last'.url \in DeltaUrls)
       => (cache = EmptyCache /\ last'.requested /\ last'.params = {})]_vars

\* C6: the first call of a run started in normal mode, for a delta-cacheable
\* key the cache file holds an item for, finds that item in the store and
\* sends the saved watermark.
C6_SavedWatermarkSentNextRun ==
    [][(last.op = "start" /\ mode = "normal" /\ Decodable(file)
        /\ last'.op = "get_cached_resource" /\ last'.url \in DeltaUrls
        /\ last'.url \in DOMAIN file.content)
       => /\ cache[last'.url] = file.content[last'.url]
          /\ last'.params =
                {<<"last_knowledge_of_server", file.content[last'.url].server_knowledge>>}]_vars

\* C7: when the request of a get_cached_resource call is answered with an
\* error status, or with a body the extraction fails on, the exception
\* reaches the caller and the whole store is as it was before the call.
C7_FailureLeavesStore ==
    (last.op = "get_cached_resource" /\ last.requested
     /\ ~(last.resp.status = 200 /\ last.resp.data.wellformed)) =>
        /\ last.ret = Raise(IF last.resp.status >= 400 THEN "HTTPError" ELSE "KeyError")
        /\ cache = last.before

C7_Witness ==
    /\ SyncCall /\ last.requested
    /\ last.resp.status = 200 /\ ~last.resp.data.wellformed
    /\ PrevItem.kind = "delta" /\ PrevItem.data # <<>>
    /\ ~Returned(last.ret)

\* C8: a response holding two records of one id makes the call raise, and
\* the store is as it was before the call.
C8_DuplicateDeltaRaises ==
    (SyncCall /\ Answered /\ ~NoDuplicateIds(last.resp.data.records)) =>
        (~Returned(last.ret) /\ cache = last.before)

\* C9: the records of every delta item of the store hold at most one record
\* per id.
C9_NoDuplicateIdsStored ==
    \A u \in Urls : cache[u].kind = "delta" => NoDuplicateIds(cache[u].data)

\* C10: with the cache frozen, a call for a key without an item fails with
\* CacheMiss, sends no request and creates no item.
C10_FrozenMissFails ==
    (last.op = "get_cached_resource" /\ frozen /\ PrevItem.kind = "none") =>
        (last.ret = Raise("CacheMiss") /\ ~last.requested /\ Item = NoEntry)

\* The latest step was the end of a with-block whose save was completed
Saved == phase = "off" /\ last.op \in {"exit", "exit_raised"}

\* C11: in a run whose cache is frozen no client call sends a request.
C11_FrozenRunSendsNothing ==
    (frozen /\ last.op \in {"get_cached_resource", "get_resource"}) => ~last.requested

\* C12: a successful sync of a delta-cacheable key stores the server_knowledge
\* of its response; the watermark stored for a key changes in no other way
\* than by such a sync or by the load of the item the file holds, and the
\* file is written from the store alone.
C12_WatermarkFromResponse ==
    [][/\ \A u \in DeltaUrls :
            (cache'[u].kind = "delta" /\ cache'[u] # cache[u]) =>
                \/ /\ last'.op = "get_cached_resource" /\ last'.url = u /\ ops' = ops + 1
                   /\ last'.requested /\ last'.resp.status = 200
                   /\ cache'[u].server_knowledge = last'.resp.data.server_knowledge
                \/ /\ last'.op = "start" /\ Decodable(file) /\ u \in DOMAIN file.content
                   /\ cache'[u] = file.content[u]
       /\ (ops' = ops + 1 /\ last'.op = "get_cached_resource" /\ last'.url \in DeltaUrls
           /\ last'.requested /\ last'.resp.status = 200 /\ last'.resp.data.wellformed) =>
             cache'[last'.url].server_knowledge = last'.resp.data.server_knowledge
       /\ (Decodable(file') /\ file' # file) =>
             \A u \in DOMAIN file'.content : file'.content[u] = cache[u]]_vars

C12_Witness ==
    /\ SyncCall /\ Answered
    /\ PrevItem.kind = "delta"
    /\ PrevItem.server_knowledge > last.resp.data.server_knowledge
    /\ Item.server_knowledge = last.resp.data.server_knowledge

\* C13: when the key has no item, the list stored and returned is the list
\* of the response, in its order and with its content.
C13_FirstSync ==
    (SyncCall /\ Answered /\ PrevItem.kind = "none") =>
        /\ Item.data = last.resp.data.records
        /\ last.ret = ReturnList(last.resp.data.records)

C13_Witness ==
    /\ SyncCall /\ Answered /\ PrevItem.kind = "none"
    /\ Len(Item.data) > 1
    /\ ~NoDuplicateIds(Item.data)
    /\ Item.data[1] # Item.data[2]

\* C14: a response without records leaves the records of the item as they
\* were (merge(merge(None, D1), []) = merge(None, D1)).
C14_EmptyDeltaKeepsRecords ==
    (SyncCall /\ Answered /\ PrevItem.kind = "delta" /\ last.resp.data.records = <<>>) =>
        Item.data = PrevItem.data

\* s is t with some of its elements left out
RECURSIVE IsSubsequence(_, _)
IsSubsequence(s, t) ==
    \/ s = <<>>
    \/ /\ t # <<>>
       /\ IF Head(s) = Head(t) THEN IsSubsequence(Tail(s), Tail(t))
          ELSE IsSubsequence(s, Tail(t))

\* C15: the merged list is the records of the response in their order,
\* followed by previous records in the order the previous list had them.
C15_DeltaFirstThenCarried ==
    (SyncCall /\ Answered) =>
        LET delta == last.resp.data.records
        IN  /\ Len(Item.data) >= Len(delta)
            /\ SubSeq(Item.data, 1, Len(delta)) = delta
            /\ IsSubsequence(SubSeq(Item.data, Len(delta) + 1, Len(Item.data)), PrevData)

C15_Witness ==
    /\ SyncCall /\ Answered
    /\ Len(PrevData) > 1
    /\ last.resp.data.records # <<>>
    /\ Len(Item.data) > Len(last.resp.data.records)

\* C16: after a run in normal or freeze mode that ended with a save, the
\* file holds an item for every key it held before the run.
C16_SaveKeepsKeys ==
    (Saved /\ mode \in {"normal", "freeze"} /\ Decodable(last.saved_over) /\ Decodable(file)) =>
        DOMAIN last.saved_over.content \subseteq DOMAIN file.content

\* C17: every way out of the with-block, an exception of the body included,
\* goes through the save, which writes the store to the file; the file is
\* written at no other moment.
C17_SavedOnEveryExit ==
    [][/\ (phase = "running" /\ phase' # "running") =>
             (phase' = "saving" /\ file' = TruncatedFile)
       /\ (phase = "saving" /\ phase' = "off" /\ last'.op # "interrupted") =>
             (Decodable(file') /\ Decode(file'.content) = cache)
       /\ file' # file =>
             \/ phase = "running" /\ phase' = "saving"
             \/ phase = "saving" /\ phase' = "off"]_vars

C17_Witness ==
    /\ phase = "off" /\ last.op = "exit_raised"
    /\ Decodable(file)
    /\ DOMAIN file.content # {}

\* C18: once the process has ended, an interruption of the save included, the
\* file holds a complete store, not a truncated or partial document.
C18_SaveAtomic == phase = "off" => (file.exists => Decodable(file))

C20_AbsentFileLoadsEmpty ==
    (mode = "flush" /\ ~file.exists /\ last.op \in {"start", "start_failed"}) =>
        (last.op = "start" /\ phase = "running" /\ cache = EmptyCache)

C20_Witness ==
    mode = "flush" /\ ~file.exists /\ last.op = "start" /\ phase = "running"

\* C21: when the file exists and cannot be decoded, the construction of the
\* client fails, in every cache mode, and the run serves or fetches nothing.
C21_CorruptFileFatal ==
    (last.op \in {"start", "start_failed"} /\ file.exists /\ ~Decodable(file)) =>
        (last.op = "start_failed" /\ phase = "off")

\* C26: a flush-mode construction whose prompt is answered with anything but
\* Y or y ends the process there: the session's response cache, the store and
\* the file are as they were, and no with-block is entered; no other
\* construction ends that way.
C26_DeclinedFlushTouchesNothing ==
    [][(runs' = runs + 1) =>
          /\ (mode' = "flush" /\ last'.answer \notin {"Y", "y"}) =>
                /\ last'.op = "exit0" /\ phase' = "off"
                /\ sessionCache' = sessionCache
                /\ cache' = cache /\ frozen' = frozen
                /\ file' = file
          /\ last'.op = "exit0" => (mode' = "flush" /\ last'.answer \notin {"Y", "y"})]_vars

C26_Witness ==
    /\ last.op = "exit0"
    /\ sessionCache # {}
    /\ Decodable(file) /\ DOMAIN file.content # {}

\* The keys get_category_by_month hands to get_resource, and those it hands
\* to get_cached_resource
ExemptUrls ==
    {CategoryUrl(m, c) : m \in {n \in Months : ~IsBeforeCurrentMonth(n)}, c \in CategoryIds}
PastMonthUrls ==
    {CategoryUrl(m, c) : m \in {n \in Months : IsBeforeCurrentMonth(n)}, c \in CategoryIds}

\* C22: a get_category_by_month call for the current or a later month sends a
\* request without params, returns what the fetch and the extraction gave,
\* and leaves the whole store as it was.
C22_ExemptKeyBypassesStore ==
    (last.url \in ExemptUrls) =>
        /\ last.op = "get_resource"
        /\ last.requested /\ last.params = {}
        /\ cache = last.before
        /\ last.ret = (IF last.resp.status >= 400 THEN Raise("HTTPError")
                       ELSE IF ~last.resp.data.wellformed THEN Raise("KeyError")
                       ELSE ReturnObject(last.resp.data.category))

C22_Witness ==
    /\ last.url \in ExemptUrls
    /\ Returned(last.ret)
    /\ last.before[MonthUrl("prev")].kind = "plain"
    /\ last.ret # ReturnObject(last.before[MonthUrl("prev")].data)

\* C23: a request answered with a 2xx status returns the data of the answer
\* to the caller whatever the X-Rate-Limit header holds, and the warning is
\* logged exactly when current/max is above 0.95.
C23_RateLimitAdvisory ==
    (last.op = "get_resource" /\ last.requested /\ last.resp.status = 200) =>
        /\ last.ret = ReturnObject(last.resp.data.category)
        /\ \A text \in RateLimitTexts :
              LET parts == Split(text)
              IN  (/\ last.resp.headers = HeadersOf(text)
                   /\ Len(parts) = 2 /\ IsInt(parts[1]) /\ IsInt(parts[2])
                   /\ ToInt(parts[2]) > 0) =>
                      (last.warned <=> 100 * ToInt(parts[1]) > 95 * ToInt(parts[2]))

\* C24: in a report, a client call made in the wrapper that fails with status
\* 429 sets the breaker; once set the breaker stays set, the wrapper makes no
\* client call, and every cell receives base_month.
C24_CircuitBreaker ==
    (last.op = "report_cell") =>
        /\ (\E j \in 1..Len(last.calls) :
               last.calls[j].ret = Raise("HTTPError") /\ last.calls[j].resp.status = 429) =>
                  (circuit_breaker /\ last.ret = ReturnObject(base_month))
        /\ last.breaker =>
              /\ circuit_breaker
              /\ last.calls = <<>>
              /\ last.ret = ReturnObject(base_month)
              /\ cells[Len(cells)] = base_month

\* C25: once the store holds a CacheItem for a category of a past month, it
\* holds it unchanged for the rest of the run, and every call for that key
\* sends no request and returns the stored data, in every cache mode; the
\* item is what the first successful call stored.
C25_PastMonthServedFromStore ==
    [][/\ \A u \in PastMonthUrls : (cache[u].kind = "plain" /\ runs' = runs) =>
             /\ cache'[u] = cache[u]
             /\ (ops' = ops + 1 /\ last'.url = u) =>
                   /\ last'.op = "get_cached_resource"
                   /\ ~last'.requested
                   /\ last'.ret = ReturnObject(cache[u].data)
       /\ (ops' = ops + 1 /\ last'.url \in PastMonthUrls /\ last'.requested
           /\ last'.resp.status = 200 /\ last'.resp.data.wellformed) =>
             cache'[last'.url] = CacheItem(last'.resp.data.category)]_vars

C25_Witness ==
    /\ last.op = "get_cached_resource" /\ last.url \in PastMonthUrls
    /\ PrevItem.kind = "plain"
    /\ ~last.requested
    /\ last.ret = ReturnObject(Item.data)

\* C27: when the response holds no id twice, the ids of the merged list are
\* those of the previous list and those of the response together, and the
\* merged list holds no id twice, whatever the previous list held; after any
\* successful sync the merged list holds every id the previous list held.
C27_IdsAreUnion ==
    (SyncCall /\ Answered) =>
        /\ IdsOf(PrevData) \subseteq IdsOf(Item.data)
        /\ NoDuplicateIds(last.resp.data.records) =>
              /\ IdsOf(Item.data) = IdsOf(PrevData) \cup IdsOf(last.resp.data.records)
              /\ NoDuplicateIds(Item.data)

C27_Witness ==
    /\ SyncCall /\ Answered
    /\ ~NoDuplicateIds(PrevData)
    /\ last.resp.data.records # <<>>
    /\ NoDuplicateIds(last.resp.data.records)
    /\ IdsOf(PrevData) \ IdsOf(last.resp.data.records) # {}
    /\ NoDuplicateIds(Item.data)

\* C28: a get_cached_resource call, whether it returns or raises, leaves the
\* item, or the absence of an item, of every other key as it was.
C28_OtherKeysUntouched ==
    (last.op = "get_cached_resource") =>
        \A u \in Urls \ {last.url} : cache[u] = last.before[u]

C28_Witness ==
    /\ last.op = "get_cached_resource"
    /\ last.url \in PastMonthUrls
    /\ Item # PrevItem
    /\ \E u \in DeltaUrls : cache[u].kind = "delta"

\* C29: the item of a key is a DeltaCacheItem when the key's template is
\* delta-cacheable and a CacheItem when it is not, in the store and in the
\* file, and no call raises the TypeError of an unexpected item type.
C29_ItemKindByTemplate ==
    /\ \A u \in Urls :
          /\ cache[u].kind \in {"none", "plain", "delta"}
          /\ cache[u].kind = "delta" => u[1] \in delta_cacheable_urls
          /\ cache[u].kind = "plain" => u[1] \notin delta_cacheable_urls
    /\ Decodable(file) =>
          \A u \in DOMAIN file.content :
              file.content[u].kind = "delta" <=> u[1] \in delta_cacheable_urls
    /\ last.ret # Raise("TypeError")

C29_Witness ==
    /\ last.op = "get_cached_resource" /\ Returned(last.ret)
    /\ \E u \in DeltaUrls : cache[u].kind = "delta"
    /\ \E u \in PastMonthUrls : cache[u].kind = "plain"

\* C30: Category.copy returns a category whose activity, balance and budgeted
\* are 0 and whose goal is reset (no goal type, no target month, no cadence,
\* 0 months to budget), and leaves the category it is called on as it was.
C30_CopyResetsTheCopy ==
    (last.op \in {"report_start", "report_cell"} /\ last.copied.done) =>
        /\ last.copied.category.activity = 0
        /\ last.copied.category.balance = 0
        /\ last.copied.category.budgeted = 0
        /\ last.copied.category.goal_type = "None"
        /\ last.copied.category.goal_target_month = "None"
        /\ last.copied.category.goal_cadence = ""
        /\ last.copied.category.goal_months_to_budget = 0
        /\ last.copied.self_after = last.copied.self

====
